---- MODULE Spec2Model ----
(***************************************************************************)
(* Walking-track-app: the activity classifier (services/ClassifierService), *)
(* the controller's pipeline and batch statistics                          *)
(* (controllers/ActivityControl) and the tracking hook that the tracker    *)
(* screen mounts (hooks/ActivityClassifier).                               *)
(*                                                                         *)
(* Units.  The program computes with IEEE doubles; the model uses exact    *)
(* integers in fixed units:                                                *)
(*   speed          mm/s            (0.5 m/s  = 500)                       *)
(*   acceleration   1/100 g         (0.15 g   = 15)                        *)
(*   confidence     1/600           (1.0      = 600, 0.2/window exact for  *)
(*                                   every window in 1..6)                 *)
(*   distance       mm                                                     *)
(*   calories       1/1000000 kcal  (0.04     = 40000)                     *)
(*   calories/km    kcal/km = (1/1000000 kcal)/mm, so that                 *)
(*                  (distance / 1000) * caloriesPerKm is distance * perKm  *)
(*   time           s                                                      *)
(* A moving average is kept as the pair <<sum, length>> and compared by    *)
(* cross-multiplication, so no rounding enters a threshold comparison.     *)
(***************************************************************************)
EXTENDS Integers, Sequences, FiniteSets, TLC

VARIABLES
  config,               \* ActivityClassifierService.config
  speedHistory,         \* ActivityClassifierService.speedHistory
  accelerationHistory,  \* ActivityClassifierService.accelerationHistory
  speedArrivals,        \* history of the values pushed since the last reset (speed)
  accelArrivals,        \* history of the values pushed since the last reset (acceleration)
  ret,                  \* the value returned by the last call made by the client
  now,                  \* Date.now(), in seconds
  pc,                   \* TrackerScreen.handleStartStop: "ready", or the await it is suspended at
  isActive,             \* useActivityClassifier: isActive
  sessionStats,         \* useActivityClassifier: sessionStats
  activityLogs,         \* useActivityClassifier: activityLogs
  locationState,        \* useActivityClassifier: location
  lastLocationRef,      \* useActivityClassifier: lastLocationRef.current
  listener,             \* accelerometerSubscriptionRef.current: the live listener, holding
                        \* the `location` its closure captured when startTracking was called
  subscription,         \* LocationService.subscription is set
  orphans,              \* the sensor subscriptions no reference holds any more: the captured
                        \* `location` of each accelerometer listener, and the number of
                        \* position watchers
  routes,               \* StorageService: the stored route list
  totalStats,           \* StorageService: the stored total stats
  saves                 \* the RouteService.saveRoute calls a client has made: the await
                        \* each one is suspended at, and what it has read

classifierVars == <<config, speedHistory, accelerationHistory>>
arrivalVars == <<speedArrivals, accelArrivals>>
hookVars == <<pc, isActive, sessionStats, activityLogs, locationState, lastLocationRef, listener,
              subscription, orphans>>
storageVars == <<routes, totalStats, saves>>
sessionVars == <<now, hookVars, storageVars>>

vars == <<classifierVars, arrivalVars, ret, sessionVars>>

----------------------------------------------------------------------------
(* models/ActivityModel *)

IDLE == "idle"
WALKING == "walking"
RUNNING == "running"
VEHICLE == "vehicle"
UNKNOWN == "unknown"

ActivityType == {IDLE, WALKING, RUNNING, VEHICLE, UNKNOWN}

\* A value that may be null or absent is a sequence of at most one element.
NULL == <<>>
Some(x) == <<x>>

DEFAULT_CLASSIFIER_CONFIG ==
  [ idleSpeedThreshold           |-> 500,
    walkingSpeedThreshold        |-> 2500,
    runningSpeedThreshold        |-> 5000,
    vehicleSpeedThreshold        |-> 8000,
    idleAccelerationThreshold    |-> 15,
    walkingAccelerationThreshold |-> 30,
    runningAccelerationThreshold |-> 60,
    movingAverageWindow          |-> 5,
    confidenceThreshold          |-> 420,
    stepDetectionThreshold       |-> 25,
    caloriesPerStep              |-> 40000,
    caloriesPerKmRunning         |-> 62,
    caloriesPerKmVehicle         |-> 0 ]

----------------------------------------------------------------------------
(* Bounds and input sets *)

MaxWindow == 3
MaxArrivals == 3

\* movingAverageWindow values the client configures before a session
Windows == 2..MaxWindow

\* A configuration whose thresholds are not in the default order: the running
\* band is empty (running speed = vehicle speed) and the walking acceleration
\* threshold lies above the running one.
SKEWED_CONFIG ==
  [DEFAULT_CLASSIFIER_CONFIG EXCEPT !.idleSpeedThreshold = 2500,
                                    !.walkingSpeedThreshold = 500,
                                    !.runningSpeedThreshold = 8000,
                                    !.walkingAccelerationThreshold = 60,
                                    !.runningAccelerationThreshold = 30]

Configs ==
  { [c EXCEPT !.movingAverageWindow = w] :
      c \in {DEFAULT_CLASSIFIER_CONFIG, SKEWED_CONFIG}, w \in Windows }

\* the (speed, magnitude) samples pushed into the histories
Samples == {<<0, 10>>, <<1112, 40>>, <<3336, 70>>, <<8896, 10>>}

\* the (speed, magnitude) pairs a client asks about
QuerySamples == Samples \cup {<<3336, 10>>, <<5560, 70>>}

\* Positions lie on one meridian: latitude in units of 0.00001 degree, the
\* longitude is the same non-zero value for every fix.
LON == 1
Latitudes == {0, 3}

\* accelerometer vectors (1/100 g) the listener receives, with norms 10 and 40
TickVectors == {<<0, 0, 10>>, <<24, 32, 0>>}

\* bounds of the tracking sessions: the clock, how far a fix's timestamp may
\* run ahead of the clock, the sessions started, the records of one session,
\* the routes stored
MaxNow == 1
MaxSkew == 2
MaxSessions == 2
MaxLogs == 2
MaxRoutes == 2

\* arguments of processActivityData: latitude and speed of the fix (speed
\* NULL when the fix has none), accelerometer vector (NULL when the caller has
\* none), latitude of the previous fix (NULL when there is none)
PipelineInputs ==
  { [latitude |-> 3, speed |-> NULL,        acceleration |-> Some(<<0, 0, 10>>),   last |-> NULL],
    [latitude |-> 3, speed |-> Some(-1112), acceleration |-> Some(<<24, 32, 0>>),  last |-> Some(0)],
    [latitude |-> 3, speed |-> Some(3336),  acceleration |-> Some(<<30, 60, 20>>), last |-> Some(3)],
    [latitude |-> 0, speed |-> Some(8896),  acceleration |-> NULL,                 last |-> Some(3)] }

----------------------------------------------------------------------------
(* services/ClassifierService *)

Last(seq) == seq[Len(seq)]

RECURSIVE Sum(_)
Sum(values) == IF values = <<>> THEN 0 ELSE Head(values) + Sum(Tail(values))

\* calculateMovingAverage: the mean as the fraction num/den (0/1 when empty)
calculateMovingAverage(values) ==
  IF Len(values) = 0 THEN [num |-> 0, den |-> 1]
  ELSE [num |-> Sum(values), den |-> Len(values)]

\* comparisons of a fraction with an integer threshold (den > 0)
FracLt(f, t) == f.num < t * f.den
FracGe(f, t) == f.num >= t * f.den
FracGt(f, t) == f.num > t * f.den

\* updateHistory that drops the newest value (pop) instead of the oldest (shift)
updateHistoryPop(cfg, history, newValue) ==
  LET updated == Append(history, newValue)
  IN IF Len(updated) > cfg.movingAverageWindow
       THEN SubSeq(updated, 1, Len(updated) - 1)
       ELSE updated

updateHistory(cfg, history, newValue) ==
  LET updated == Append(history, newValue)
  IN IF Len(updated) > cfg.movingAverageWindow THEN Tail(updated) ELSE updated

getAverages(sh, ah) ==
  [avgSpeed |-> calculateMovingAverage(sh),
   avgAcceleration |-> calculateMovingAverage(ah)]

\* getActivity whose last rule falls through to UNKNOWN instead of IDLE
getActivityUnknownDefault(cfg, sh, ah, speed, acceleration) ==
  LET avg == getAverages(sh, ah)
      effectiveSpeed ==
        IF FracGt(avg.avgSpeed, 0) THEN avg.avgSpeed ELSE [num |-> speed, den |-> 1]
      effectiveAcceleration ==
        IF FracGt(avg.avgAcceleration, 0) THEN avg.avgAcceleration
        ELSE [num |-> acceleration, den |-> 1]
  IN IF FracLt(effectiveSpeed, cfg.idleSpeedThreshold)
       THEN IF FracLt(effectiveAcceleration, cfg.idleAccelerationThreshold)
              THEN IDLE
              ELSE IDLE
     ELSE IF FracGe(effectiveSpeed, cfg.vehicleSpeedThreshold)
       THEN VEHICLE
     ELSE IF FracGe(effectiveSpeed, cfg.runningSpeedThreshold)
       THEN IF FracGe(effectiveAcceleration, cfg.runningAccelerationThreshold)
              THEN RUNNING
              ELSE VEHICLE
     ELSE IF FracGe(effectiveSpeed, cfg.walkingSpeedThreshold)
       THEN IF FracGe(effectiveAcceleration, cfg.walkingAccelerationThreshold)
              THEN RUNNING
              ELSE WALKING
     ELSE IF FracGe(effectiveAcceleration, cfg.walkingAccelerationThreshold)
       THEN WALKING
     ELSE UNKNOWN

\* getActivity whose running-speed rule does not look at the acceleration
getActivityRunningBySpeed(cfg, sh, ah, speed, acceleration) ==
  LET avg == getAverages(sh, ah)
      effectiveSpeed ==
        IF FracGt(avg.avgSpeed, 0) THEN avg.avgSpeed ELSE [num |-> speed, den |-> 1]
      effectiveAcceleration ==
        IF FracGt(avg.avgAcceleration, 0) THEN avg.avgAcceleration
        ELSE [num |-> acceleration, den |-> 1]
  IN IF FracLt(effectiveSpeed, cfg.idleSpeedThreshold)
       THEN IF FracLt(effectiveAcceleration, cfg.idleAccelerationThreshold)
              THEN IDLE
              ELSE IDLE
     ELSE IF FracGe(effectiveSpeed, cfg.vehicleSpeedThreshold)
       THEN VEHICLE
     ELSE IF FracGe(effectiveSpeed, cfg.runningSpeedThreshold)
       THEN RUNNING
     ELSE IF FracGe(effectiveSpeed, cfg.walkingSpeedThreshold)
       THEN IF FracGe(effectiveAcceleration, cfg.walkingAccelerationThreshold)
              THEN RUNNING
              ELSE WALKING
     ELSE IF FracGe(effectiveAcceleration, cfg.walkingAccelerationThreshold)
       THEN WALKING
     ELSE IDLE

getActivity(cfg, sh, ah, speed, acceleration) ==
  LET avg == getAverages(sh, ah)
      effectiveSpeed ==
        IF FracGt(avg.avgSpeed, 0) THEN avg.avgSpeed ELSE [num |-> speed, den |-> 1]
      effectiveAcceleration ==
        IF FracGt(avg.avgAcceleration, 0) THEN avg.avgAcceleration
        ELSE [num |-> acceleration, den |-> 1]
  IN IF FracLt(effectiveSpeed, cfg.idleSpeedThreshold)
       THEN IF FracLt(effectiveAcceleration, cfg.idleAccelerationThreshold)
              THEN IDLE
              ELSE IDLE
     ELSE IF FracGe(effectiveSpeed, cfg.vehicleSpeedThreshold)
       THEN VEHICLE
     ELSE IF FracGe(effectiveSpeed, cfg.runningSpeedThreshold)
       THEN IF FracGe(effectiveAcceleration, cfg.runningAccelerationThreshold)
              THEN RUNNING
              ELSE VEHICLE
     ELSE IF FracGe(effectiveSpeed, cfg.walkingSpeedThreshold)
       THEN IF FracGe(effectiveAcceleration, cfg.walkingAccelerationThreshold)
              THEN RUNNING
              ELSE WALKING
     ELSE IF FracGe(effectiveAcceleration, cfg.walkingAccelerationThreshold)
       THEN WALKING
     ELSE IDLE

\* calculateVariance: the mean squared deviation as a fraction,
\* sum((v - avg)^2)/n = (n*sum(v^2) - sum(v)^2) / n^2
calculateVariance(values) ==
  IF Len(values) = 0 THEN [num |-> 0, den |-> 1]
  ELSE LET n == Len(values)
           squares == [i \in 1..n |-> values[i] * values[i]]
       IN [num |-> n * Sum(squares) - Sum(values) * Sum(values), den |-> n * n]

Min(a, b) == IF a < b THEN a ELSE b
Max(a, b) == IF a > b THEN a ELSE b

\* the literals of getConfidence, in 1/600
BaseConfidence == 300
HistoryWeight == 120
FullBonus == 180
WalkingBonus == 150
StabilityBonus == 60
One == 600
\* 0.5 (m/s)^2 in (mm/s)^2
StableVariance == 500000

\* the sum with the Walking bonus as large as the other bonuses
rawConfidenceEqualBonuses(cfg, sh, speed, acceleration, activity) ==
  LET historyFactor ==
        IF Len(sh) >= cfg.movingAverageWindow THEN HistoryWeight
        ELSE (Len(sh) * HistoryWeight) \div cfg.movingAverageWindow
      consistency ==
        CASE activity = IDLE ->
               IF speed < cfg.idleSpeedThreshold /\ acceleration < cfg.idleAccelerationThreshold
               THEN FullBonus ELSE 0
          [] activity = WALKING ->
               IF /\ speed >= cfg.idleSpeedThreshold
                  /\ speed < cfg.runningSpeedThreshold
                  /\ acceleration >= cfg.walkingAccelerationThreshold
               THEN FullBonus ELSE 0
          [] activity = RUNNING ->
               IF speed >= cfg.runningSpeedThreshold /\ acceleration >= cfg.runningAccelerationThreshold
               THEN FullBonus ELSE 0
          [] activity = VEHICLE ->
               IF speed >= cfg.vehicleSpeedThreshold THEN FullBonus ELSE 0
          [] OTHER -> 0
      stability ==
        IF Len(sh) >= cfg.movingAverageWindow /\ FracLt(calculateVariance(sh), StableVariance)
        THEN StabilityBonus ELSE 0
  IN BaseConfidence + historyFactor + consistency + stability

\* the sum getConfidence builds before it clamps
rawConfidence(cfg, sh, speed, acceleration, activity) ==
  LET historyFactor ==
        IF Len(sh) >= cfg.movingAverageWindow THEN HistoryWeight
        ELSE (Len(sh) * HistoryWeight) \div cfg.movingAverageWindow
      consistency ==
        CASE activity = IDLE ->
               IF speed < cfg.idleSpeedThreshold /\ acceleration < cfg.idleAccelerationThreshold
               THEN FullBonus ELSE 0
          [] activity = WALKING ->
               IF /\ speed >= cfg.idleSpeedThreshold
                  /\ speed < cfg.runningSpeedThreshold
                  /\ acceleration >= cfg.walkingAccelerationThreshold
               THEN WalkingBonus ELSE 0
          [] activity = RUNNING ->
               IF speed >= cfg.runningSpeedThreshold /\ acceleration >= cfg.runningAccelerationThreshold
               THEN FullBonus ELSE 0
          [] activity = VEHICLE ->
               IF speed >= cfg.vehicleSpeedThreshold THEN FullBonus ELSE 0
          [] OTHER -> 0
      stability ==
        IF Len(sh) >= cfg.movingAverageWindow /\ FracLt(calculateVariance(sh), StableVariance)
        THEN StabilityBonus ELSE 0
  IN BaseConfidence + historyFactor + consistency + stability

\* getConfidence without the final clamp
getConfidenceNoClamp(cfg, sh, speed, acceleration, activity) ==
  rawConfidence(cfg, sh, speed, acceleration, activity)

getConfidence(cfg, sh, speed, acceleration, activity) ==
  Min(Max(rawConfidence(cfg, sh, speed, acceleration, activity), 0), One)

\* the Step Detector without its test of the history's length: a history of
\* one sample is enough for it
detectStepNoLengthTest(cfg, ah, acceleration) ==
  IF Len(ah) < 1 THEN FALSE
  ELSE LET prevAcceleration == ah[Len(ah)]
       IN /\ acceleration > prevAcceleration + cfg.stepDetectionThreshold
          /\ acceleration > cfg.walkingAccelerationThreshold

detectStep(cfg, ah, acceleration) ==
  IF Len(ah) < 2 THEN FALSE
  ELSE LET prevAcceleration == ah[Len(ah)]
       IN /\ acceleration > prevAcceleration + cfg.stepDetectionThreshold
          /\ acceleration > cfg.walkingAccelerationThreshold

reset_histories == <<>>

\* calculateMagnitude: sqrt(x*x + y*y + z*z); the model's vectors have an
\* integral norm, which the integer square root returns exactly
calculateMagnitude(x, y, z) ==
  LET s == x * x + y * y + z * z
  IN CHOOSE m \in 0..(Max(Max(x, -x), Max(y, -y)) + Max(z, -z)) * 2 :
       m * m <= s /\ s < (m + 1) * (m + 1)

----------------------------------------------------------------------------
(* services/LocationService *)

\* R * (pi/180) * 0.00001 degree = 1.11195 m, in mm
ArcLength == 1112

Abs(x) == IF x < 0 THEN -x ELSE x

\* a / b rounded toward zero (b # 0): a quotient of doubles kept in whole units
Quotient(a, b) ==
  IF (a >= 0) = (b > 0) THEN Abs(a) \div Abs(b) ELSE -(Abs(a) \div Abs(b))

\* calculateDistance (haversine).  For two points of one meridian a =
\* sin^2(dphi/2), c = |dphi| and the result is R * |dphi|.
calculateDistance(lat1, lon1, lat2, lon2) ==
  ArcLength * Abs(lat2 - lat1)

----------------------------------------------------------------------------
(* controllers/ActivityControl *)

\* processActivityData pushing the speed before it reads the acceleration, so
\* that a failing call leaves the speed history one sample longer
processActivityDataPushFirst(cfg, sh, ah, location, acceleration, lastLocation) ==
  LET speed == Abs(IF location.speed = NULL THEN 0 ELSE location.speed[1])
      sh2 == updateHistory(cfg, sh, speed)
  IN IF acceleration = NULL
     THEN [activity |-> UNKNOWN, confidence |-> 0, distance |-> 0,
           speedHistory |-> sh2, accelerationHistory |-> ah, failed |-> TRUE]
     ELSE LET magnitude == calculateMagnitude(acceleration[1][1], acceleration[1][2],
                                              acceleration[1][3])
              ah2 == updateHistory(cfg, ah, magnitude)
              activity == getActivity(cfg, sh2, ah2, speed, magnitude)
              confidence == getConfidence(cfg, sh2, speed, magnitude, activity)
              distance ==
                IF lastLocation # NULL
                THEN calculateDistance(lastLocation[1].latitude, lastLocation[1].longitude,
                                       location.latitude, location.longitude)
                ELSE 0
          IN [activity |-> activity, confidence |-> confidence, distance |-> distance,
              speedHistory |-> sh2, accelerationHistory |-> ah2, failed |-> FALSE]

\* processActivityData: the record it returns and the histories it leaves.
\* acceleration = NULL makes acceleration.x throw inside the try block, before
\* the histories are touched; the catch block returns the fallback.
processActivityData(cfg, sh, ah, location, acceleration, lastLocation) ==
  IF acceleration = NULL
  THEN [activity |-> UNKNOWN, confidence |-> 0, distance |-> 0,
        speedHistory |-> sh, accelerationHistory |-> ah, failed |-> TRUE]
  ELSE LET magnitude == calculateMagnitude(acceleration[1][1], acceleration[1][2],
                                           acceleration[1][3])
           speed == Abs(IF location.speed = NULL THEN 0 ELSE location.speed[1])
           sh2 == updateHistory(cfg, sh, speed)
           ah2 == updateHistory(cfg, ah, magnitude)
           activity == getActivity(cfg, sh2, ah2, speed, magnitude)
           confidence == getConfidence(cfg, sh2, speed, magnitude, activity)
           distance ==
             IF lastLocation # NULL
             THEN calculateDistance(lastLocation[1].latitude, lastLocation[1].longitude,
                                    location.latitude, location.longitude)
             ELSE 0
       IN [activity |-> activity, confidence |-> confidence, distance |-> distance,
           speedHistory |-> sh2, accelerationHistory |-> ah2, failed |-> FALSE]

\* the activities tally of an empty log: every count absent (0)
NoActivities == [a \in ActivityType |-> 0]

\* calculateSessionStats, the distance loop: sum of the increments between
\* consecutive records
totalDistance(logs) ==
  Sum([i \in 1..(Len(logs) - 1) |->
         calculateDistance(logs[i].location.latitude, logs[i].location.longitude,
                           logs[i + 1].location.latitude, logs[i + 1].location.longitude)])

\* calculateSessionStats, the steps loop: detectStep is asked about each
\* record but the first, against the classifier's current acceleration history
countSteps(cfg, ah, logs) ==
  Cardinality({i \in 2..Len(logs) :
                 /\ detectStep(cfg, ah, logs[i].acceleration.magnitude)
                 /\ logs[i].activity \in {WALKING, RUNNING}})

RECURSIVE MaxOf(_)
MaxOf(values) ==
  IF Len(values) = 1 THEN Head(values) ELSE Max(Head(values), MaxOf(Tail(values)))

\* calculateSessionStats, logs.forEach: the count of records per activity
tallyActivities(logs) ==
  [a \in ActivityType |-> Cardinality({i \in 1..Len(logs) : logs[i].activity = a})]

\* calculateSessionStats without the early return for an empty log
calculateSessionStatsNoEmptyCase(cfg, ah, logs, sessionId, startTime, clock) ==
  LET steps == countSteps(cfg, ah, logs)
      running == SelectSeq(logs, LAMBDA log : log.activity = RUNNING)
      runningDistance == totalDistance(running)
      calories == steps * cfg.caloriesPerStep + runningDistance * cfg.caloriesPerKmRunning
      speeds == SelectSeq([i \in 1..Len(logs) |-> logs[i].speed], LAMBDA v : v > 0)
      averageSpeed == IF Len(speeds) > 0 THEN Quotient(Sum(speeds), Len(speeds)) ELSE 0
      maxSpeed == IF Len(speeds) > 0 THEN MaxOf(speeds) ELSE 0
  IN [sessionId |-> sessionId, startTime |-> startTime, endTime |-> Some(clock),
      duration |-> clock - startTime, distance |-> totalDistance(logs),
      steps |-> steps, calories |-> calories,
      averageSpeed |-> averageSpeed, maxSpeed |-> maxSpeed,
      activities |-> tallyActivities(logs)]

calculateSessionStats(cfg, ah, logs, sessionId, startTime, clock) ==
  IF Len(logs) = 0
  THEN [sessionId |-> sessionId, startTime |-> startTime, endTime |-> Some(clock),
        duration |-> 0, distance |-> 0, steps |-> 0, calories |-> 0,
        averageSpeed |-> 0, maxSpeed |-> 0, activities |-> NoActivities]
  ELSE LET steps == countSteps(cfg, ah, logs)
           running == SelectSeq(logs, LAMBDA log : log.activity = RUNNING)
           runningDistance == totalDistance(running)
           calories == steps * cfg.caloriesPerStep + runningDistance * cfg.caloriesPerKmRunning
           speeds == SelectSeq([i \in 1..Len(logs) |-> logs[i].speed], LAMBDA v : v > 0)
           averageSpeed == IF Len(speeds) > 0 THEN Quotient(Sum(speeds), Len(speeds)) ELSE 0
           maxSpeed == IF Len(speeds) > 0 THEN MaxOf(speeds) ELSE 0
       IN [sessionId |-> sessionId, startTime |-> startTime, endTime |-> Some(clock),
           duration |-> clock - startTime, distance |-> totalDistance(logs),
           steps |-> steps, calories |-> calories,
           averageSpeed |-> averageSpeed, maxSpeed |-> maxSpeed,
           activities |-> tallyActivities(logs)]

----------------------------------------------------------------------------
(* hooks/ActivityClassifier (the hook TrackerScreen mounts), with            *)
(* TrackerScreen.handleStartStop, LocationService and the storage it saves to *)

\* the SessionStats a hook starts from, and startTracking's fresh SessionStats
newSessionStats(sessionId, startTime) ==
  [sessionId |-> sessionId, startTime |-> startTime, endTime |-> NULL,
   duration |-> 0, distance |-> 0, steps |-> 0, calories |-> 0,
   averageSpeed |-> 0, maxSpeed |-> 0, activities |-> NoActivities]

NoTotalStats ==
  [totalDistance |-> 0, totalSteps |-> 0, totalCalories |-> 0,
   totalSessions |-> 0, totalDuration |-> 0]

\* saveRoute calls a client makes side by side
MaxSaves == 2

\* a saveRoute call not made yet, and the calls before any is made
NoSave ==
  [pc |-> "idle", route |-> NULL, routesRead |-> <<>>, totalsRead |-> NoTotalStats,
   before |-> NULL, faulted |-> FALSE]

NoSaves == [p \in 1..MaxSaves |-> NoSave]

NoOrphans == [listeners |-> <<>>, watchers |-> 0]

InitSession ==
  /\ now = 0
  /\ pc = "ready"
  /\ isActive = FALSE
  /\ sessionStats = newSessionStats(0, 0)
  /\ activityLogs = <<>>
  /\ locationState = NULL
  /\ lastLocationRef = NULL
  /\ listener = NULL
  /\ subscription = FALSE
  /\ orphans = NoOrphans
  /\ routes = <<>>
  /\ totalStats = NoTotalStats
  /\ saves = NoSaves

NoCall == [op |-> "none"]

\* the speed with an elapsed time of zero taken as one second
manualSpeedUnitFloor(dist, dt) == IF dt = 0 THEN dist ELSE Quotient(dist, dt)

\* the location callback's speed: dist / dt, 0 when the quotient is not finite
manualSpeed(dist, dt) == IF dt = 0 THEN 0 ELSE Quotient(dist, dt)

\* the location callback's setSessionStats updater that overwrites the distance
locationUpdaterOverwrite(prev, dist, speed) ==
  [prev EXCEPT !.distance = dist, !.maxSpeed = Max(@, speed)]

\* the location callback's setSessionStats updater
locationUpdater(prev, dist, speed) ==
  [prev EXCEPT !.distance = @ + dist, !.maxSpeed = Max(@, speed)]

\* calories the listener adds per tick classified Running / Walking
RunningTickCalories == 100000
WalkingTickCalories == 50000

\* the listener's updater that forgets to tally the Idle samples
tickUpdaterSkipIdle(prev, activity, clock) ==
  LET duration == clock - prev.startTime
  IN [prev EXCEPT
        !.duration = duration,
        !.steps = IF activity \in {WALKING, RUNNING} THEN @ + 1 ELSE @,
        !.calories = IF activity = RUNNING THEN @ + RunningTickCalories
                     ELSE IF activity = WALKING THEN @ + WalkingTickCalories
                     ELSE @,
        !.averageSpeed = IF duration > 0 THEN Quotient(prev.distance, duration) ELSE 0,
        !.activities = IF activity = IDLE THEN @ ELSE [@ EXCEPT ![activity] = @ + 1]]

\* the accelerometer listener's setSessionStats updater
tickUpdater(prev, activity, clock) ==
  LET duration == clock - prev.startTime
  IN [prev EXCEPT
        !.duration = duration,
        !.steps = IF activity \in {WALKING, RUNNING} THEN @ + 1 ELSE @,
        !.calories = IF activity = RUNNING THEN @ + RunningTickCalories
                     ELSE IF activity = WALKING THEN @ + WalkingTickCalories
                     ELSE @,
        !.averageSpeed = IF duration > 0 THEN Quotient(prev.distance, duration) ELSE 0,
        !.activities = [@ EXCEPT ![activity] = @ + 1]]

\* JavaScript truthiness of a number
Truthy(n) == n # 0

\* location?.latitude && location?.longitude
hasCoordinates(loc) ==
  loc # NULL /\ Truthy(loc[1].latitude) /\ Truthy(loc[1].longitude)

\* StorageService.updateTotalStats: the totals after one more session
updateTotalStats(current, stats) ==
  [totalDistance |-> current.totalDistance + stats.distance,
   totalSteps    |-> current.totalSteps + stats.steps,
   totalCalories |-> current.totalCalories + stats.calories,
   totalSessions |-> current.totalSessions + 1,
   totalDuration |-> current.totalDuration + stats.duration]

\* stopTracking's finalStats
finalStats(stats, clock) ==
  [stats EXCEPT !.endTime = Some(clock), !.duration = clock - stats.startTime]

\* handleStartStop with isActive false: startTracking up to its await of
\* LocationService.startTracking (watchPositionAsync)
StartTracking ==
  /\ pc = "ready"
  /\ ~isActive
  /\ sessionStats.sessionId < MaxSessions
  /\ sessionStats' = newSessionStats(sessionStats.sessionId + 1, now)
  /\ lastLocationRef' = NULL
  /\ activityLogs' = <<>>
  /\ speedHistory' = reset_histories
  /\ accelerationHistory' = reset_histories
  /\ isActive' = TRUE
  /\ pc' = "starting"
  /\ ret' = NoCall
  /\ UNCHANGED <<config, arrivalVars, now, locationState, listener,
                 subscription, orphans, storageVars>>

\* watchPositionAsync resolves: LocationService keeps the subscription and
\* startTracking adds the accelerometer listener, whose closure holds the
\* `location` of the render startTracking was called from
StartTrackingResolved ==
  /\ pc = "starting"
  /\ subscription' = TRUE
  /\ listener' = Some(locationState)
  /\ orphans' = [listeners |-> IF listener # NULL
                                 THEN Append(orphans.listeners, listener[1])
                                 ELSE orphans.listeners,
                  watchers |-> IF subscription THEN orphans.watchers + 1
                               ELSE orphans.watchers]
  /\ pc' = "ready"
  /\ ret' = NoCall
  /\ UNCHANGED <<classifierVars, arrivalVars, now, isActive, sessionStats, activityLogs,
                 locationState, lastLocationRef, storageVars>>

\* watchPositionAsync rejects: startTracking's catch block
StartTrackingFailed ==
  /\ pc = "starting"
  /\ isActive' = FALSE
  /\ pc' = "ready"
  /\ ret' = NoCall
  /\ UNCHANGED <<classifierVars, arrivalVars, now, sessionStats, activityLogs,
                 locationState, lastLocationRef, listener,
                 subscription, orphans, storageVars>>

\* the callback startTracking hands to LocationService.startTracking
LocationCallback ==
  \E lat \in Latitudes, timestamp \in now..(now + MaxSkew) :
    LET newLoc0 == [latitude |-> lat, longitude |-> LON, timestamp |-> timestamp, speed |-> 0]
        last == lastLocationRef[1]
        dt == now - last.timestamp
        dist == calculateDistance(last.latitude, last.longitude, lat, LON)
        newLoc == IF lastLocationRef # NULL
                    THEN [newLoc0 EXCEPT !.speed = manualSpeed(dist, dt)]
                    ELSE newLoc0
    IN /\ subscription
       /\ locationState # NULL => timestamp > locationState[1].timestamp
       /\ sessionStats' = IF lastLocationRef # NULL
                            THEN locationUpdater(sessionStats, dist, newLoc.speed)
                            ELSE sessionStats
       /\ lastLocationRef' = Some(newLoc)
       /\ locationState' = Some(newLoc)
       /\ ret' = NoCall
       /\ UNCHANGED <<classifierVars, arrivalVars, now, pc, isActive, activityLogs,
                      listener, subscription, orphans, storageVars>>

\* the listener that classifies the sample against the histories as they
\* were and pushes it afterwards
AccelerometerListenerClassifyFirst ==
  \E v \in TickVectors :
    LET magnitude == calculateMagnitude(v[1], v[2], v[3])
        captured == listener[1]
        speed == captured[1].speed
        sh == updateHistory(config, speedHistory, speed)
        ah == updateHistory(config, accelerationHistory, magnitude)
        activity == getActivity(config, speedHistory, accelerationHistory, speed, magnitude)
        activityConfidence == getConfidence(config, speedHistory, speed, magnitude, activity)
        log == [activity |-> activity, confidence |-> activityConfidence,
                location |-> captured[1], acceleration |-> [magnitude |-> magnitude],
                timestamp |-> now, speed |-> speed]
    IN /\ listener # NULL
       /\ IF hasCoordinates(captured)
            THEN /\ Len(activityLogs) < MaxLogs
                 /\ speedHistory' = sh
                 /\ accelerationHistory' = ah
                 /\ activityLogs' = Append(activityLogs, log)
                 /\ sessionStats' = tickUpdater(sessionStats, activity, now)
            ELSE UNCHANGED <<speedHistory, accelerationHistory, activityLogs, sessionStats>>
       /\ ret' = NoCall
       /\ UNCHANGED <<config, arrivalVars, now, pc, isActive, locationState,
                      lastLocationRef, listener, subscription, orphans, storageVars>>

\* the listener startTracking adds to the Accelerometer
AccelerometerListener ==
  \E v \in TickVectors :
    LET magnitude == calculateMagnitude(v[1], v[2], v[3])
        captured == listener[1]
        speed == captured[1].speed
        sh == updateHistory(config, speedHistory, speed)
        ah == updateHistory(config, accelerationHistory, magnitude)
        activity == getActivity(config, sh, ah, speed, magnitude)
        activityConfidence == getConfidence(config, sh, speed, magnitude, activity)
        log == [activity |-> activity, confidence |-> activityConfidence,
                location |-> captured[1], acceleration |-> [magnitude |-> magnitude],
                timestamp |-> now, speed |-> speed]
    IN /\ listener # NULL
       /\ IF hasCoordinates(captured)
            THEN /\ Len(activityLogs) < MaxLogs
                 /\ speedHistory' = sh
                 /\ accelerationHistory' = ah
                 /\ activityLogs' = Append(activityLogs, log)
                 /\ sessionStats' = tickUpdater(sessionStats, activity, now)
            ELSE UNCHANGED <<speedHistory, accelerationHistory, activityLogs, sessionStats>>
       /\ ret' = NoCall
       /\ UNCHANGED <<config, arrivalVars, now, pc, isActive, locationState,
                      lastLocationRef, listener, subscription, orphans, storageVars>>

\* handleStartStop with isActive true: stopTracking up to its await of
\* RouteService.saveRoute, or to its end when there is no log to save
StopTracking ==
  /\ pc = "ready"
  /\ isActive
  /\ subscription' = FALSE
  /\ listener' = NULL
  /\ sessionStats' = finalStats(sessionStats, now)
  /\ IF Len(activityLogs) > 0
       THEN /\ pc' = "saving"
            /\ UNCHANGED <<isActive, speedHistory, accelerationHistory>>
       ELSE /\ isActive' = FALSE
            /\ speedHistory' = reset_histories
            /\ accelerationHistory' = reset_histories
            /\ pc' = "ready"
  /\ ret' = NoCall
  /\ UNCHANGED <<config, arrivalVars, now, activityLogs, locationState, lastLocationRef,
                 orphans, storageVars>>

\* RouteService.saveRoute resolves: the route is stored, the totals updated,
\* and stopTracking runs to its end
SaveRouteResolved ==
  /\ pc = "saving"
  /\ Len(routes) < MaxRoutes
  /\ routes' = Append(routes, [date |-> sessionStats.startTime, logs |-> activityLogs,
                                stats |-> sessionStats])
  /\ totalStats' = updateTotalStats(totalStats, sessionStats)
  /\ isActive' = FALSE
  /\ speedHistory' = reset_histories
  /\ accelerationHistory' = reset_histories
  /\ pc' = "ready"
  /\ ret' = NoCall
  /\ UNCHANGED <<config, arrivalVars, now, sessionStats, activityLogs, locationState,
                 lastLocationRef, listener, subscription, orphans, saves>>

\* RouteService.saveRoute rejects, either in StorageService.saveRoute (nothing
\* stored) or in StorageService.updateTotalStats (the route already stored):
\* stopTracking's catch block rethrows
SaveRouteFailed ==
  \E stored \in BOOLEAN :
    /\ pc = "saving"
    /\ stored => Len(routes) < MaxRoutes
    /\ routes' = IF stored
                   THEN Append(routes, [date |-> sessionStats.startTime,
                                        logs |-> activityLogs, stats |-> sessionStats])
                   ELSE routes
    /\ pc' = "ready"
    /\ ret' = NoCall
    /\ UNCHANGED <<classifierVars, arrivalVars, now, isActive, sessionStats, activityLogs,
                   locationState, lastLocationRef, listener,
                   subscription, orphans, totalStats, saves>>

\* ActivityController.calculateSessionStats on the session's log
CalculateSessionStats ==
  /\ ret' = [op |-> "calculateSessionStats",
             stats |-> calculateSessionStats(config, accelerationHistory, activityLogs,
                                             sessionStats.sessionId, sessionStats.startTime, now)]
  /\ UNCHANGED <<classifierVars, arrivalVars, sessionVars>>

\* the wall clock advances
AdvanceClock ==
  /\ now < MaxNow
  /\ now' = now + 1
  /\ ret' = NoCall
  /\ UNCHANGED <<classifierVars, arrivalVars, hookVars, storageVars>>

Init ==
  /\ config = DEFAULT_CLASSIFIER_CONFIG
  /\ speedHistory = <<>>
  /\ accelerationHistory = <<>>
  /\ speedArrivals = <<>>
  /\ accelArrivals = <<>>
  /\ ret = NoCall
  /\ InitSession

Next ==
  \/ StartTracking
  \/ StartTrackingResolved
  \/ StartTrackingFailed
  \/ LocationCallback
  \/ AccelerometerListener
  \/ StopTracking
  \/ SaveRouteResolved
  \/ SaveRouteFailed
  \/ CalculateSessionStats
  \/ AdvanceClock

Spec == Init /\ [][Next]_vars

----------------------------------------------------------------------------
(* The hook called without TrackerScreen's isActive test: startTracking may  *)
(* be called while a session is active.  The subscriptions of the session   *)
(* it replaces are never removed and keep delivering.  The behaviours are   *)
(* those in which sessions are restarted and none is stopped                *)

\* sessions a mount goes through when startTracking is also called directly
MaxDirectSessions == 3

\* startTracking called while isActive is true, up to its await of
\* LocationService.startTracking: the hook tests hasPermission only
StartTrackingDirect ==
  /\ pc = "ready"
  /\ isActive
  /\ sessionStats.sessionId < MaxDirectSessions
  /\ sessionStats' = newSessionStats(sessionStats.sessionId + 1, now)
  /\ lastLocationRef' = NULL
  /\ activityLogs' = <<>>
  /\ speedHistory' = reset_histories
  /\ accelerationHistory' = reset_histories
  /\ isActive' = TRUE
  /\ pc' = "starting"
  /\ ret' = NoCall
  /\ UNCHANGED <<config, arrivalVars, now, locationState, listener,
                 subscription, orphans, storageVars>>

\* the location callback run by a position watcher that LocationService no
\* longer holds: it delivers the fix the held watcher delivered, or a new one
OrphanLocationCallback ==
  \E lat \in Latitudes, timestamp \in now..(now + MaxSkew) :
    LET newLoc0 == [latitude |-> lat, longitude |-> LON, timestamp |-> timestamp, speed |-> 0]
        last == lastLocationRef[1]
        dt == now - last.timestamp
        dist == calculateDistance(last.latitude, last.longitude, lat, LON)
        newLoc == IF lastLocationRef # NULL
                    THEN [newLoc0 EXCEPT !.speed = manualSpeed(dist, dt)]
                    ELSE newLoc0
    IN /\ orphans.watchers > 0
       /\ locationState # NULL =>
            \/ timestamp > locationState[1].timestamp
            \/ timestamp = locationState[1].timestamp /\ lat = locationState[1].latitude
       /\ sessionStats' = IF lastLocationRef # NULL
                            THEN locationUpdater(sessionStats, dist, newLoc.speed)
                            ELSE sessionStats
       /\ lastLocationRef' = Some(newLoc)
       /\ locationState' = Some(newLoc)
       /\ ret' = NoCall
       /\ UNCHANGED <<classifierVars, arrivalVars, now, pc, isActive, activityLogs,
                      listener, subscription, orphans, storageVars>>

\* an accelerometer listener whose subscription the ref no longer holds
OrphanAccelerometerListener ==
  \E i \in 1..Len(orphans.listeners), v \in TickVectors :
    LET magnitude == calculateMagnitude(v[1], v[2], v[3])
        captured == orphans.listeners[i]
        speed == captured[1].speed
        sh == updateHistory(config, speedHistory, speed)
        ah == updateHistory(config, accelerationHistory, magnitude)
        activity == getActivity(config, sh, ah, speed, magnitude)
        activityConfidence == getConfidence(config, sh, speed, magnitude, activity)
        log == [activity |-> activity, confidence |-> activityConfidence,
                location |-> captured[1], acceleration |-> [magnitude |-> magnitude],
                timestamp |-> now, speed |-> speed]
    IN /\ hasCoordinates(captured)
       /\ Len(activityLogs) < MaxLogs
       /\ speedHistory' = sh
       /\ accelerationHistory' = ah
       /\ activityLogs' = Append(activityLogs, log)
       /\ sessionStats' = tickUpdater(sessionStats, activity, now)
       /\ ret' = NoCall
       /\ UNCHANGED <<config, arrivalVars, now, pc, isActive, locationState,
                      lastLocationRef, listener, subscription, orphans, storageVars>>

NextDirect ==
  \/ StartTracking
  \/ StartTrackingDirect
  \/ StartTrackingResolved
  \/ StartTrackingFailed
  \/ LocationCallback
  \/ OrphanLocationCallback
  \/ AccelerometerListener
  \/ OrphanAccelerometerListener
  \/ AdvanceClock

SpecDirect == Init /\ [][NextDirect]_vars

\* C13: a startTracking taken while a session is active is rejected: it leaves
\* the session's stats, its log, the classifier histories and the sensor
\* subscriptions as they were.
C13_StartWhileActiveRejected ==
  [][(isActive /\ pc = "ready" /\ pc' = "starting") =>
       UNCHANGED <<sessionStats, activityLogs, speedHistory, accelerationHistory,
                   listener, subscription>>]_vars

----------------------------------------------------------------------------
(* Batch recomputation: calculateSessionStats called again and again on one *)
(* recorded log while the clock and the live classifier move on             *)

BatchRecord(activity, latitude, magnitude, speed) ==
  [activity |-> activity, confidence |-> One,
   location |-> [latitude |-> latitude, longitude |-> LON, timestamp |-> 0, speed |-> speed],
   acceleration |-> [magnitude |-> magnitude], timestamp |-> 0, speed |-> speed]

BatchRecords ==
  { BatchRecord(WALKING, 0, 10, 1112), BatchRecord(WALKING, 3, 40, 1112),
    BatchRecord(RUNNING, 3, 40, 3336), BatchRecord(RUNNING, 0, 70, 3336),
    BatchRecord(IDLE, 3, 10, 0) }

MaxBatchLen == 3

BatchLogs == UNION { [1..n -> BatchRecords] : n \in 0..MaxBatchLen }

InitBatch ==
  /\ config = DEFAULT_CLASSIFIER_CONFIG
  /\ speedHistory = <<>>
  /\ accelerationHistory = <<>>
  /\ speedArrivals = <<>>
  /\ accelArrivals = <<>>
  /\ ret = NoCall
  /\ now = 0
  /\ pc = "ready"
  /\ isActive = FALSE
  /\ sessionStats = newSessionStats(1, 0)
  /\ activityLogs \in BatchLogs
  /\ locationState = NULL
  /\ lastLocationRef = NULL
  /\ listener = NULL
  /\ subscription = FALSE
  /\ orphans = NoOrphans
  /\ routes = <<>>
  /\ totalStats = NoTotalStats
  /\ saves = NoSaves

\* the live pipeline pushes a sample into the classifier's histories
LiveUpdateHistories ==
  \E s \in Samples :
    /\ Len(speedArrivals) < MaxArrivals
    /\ speedHistory' = updateHistory(config, speedHistory, s[1])
    /\ accelerationHistory' = updateHistory(config, accelerationHistory, s[2])
    /\ speedArrivals' = Append(speedArrivals, s[1])
    /\ accelArrivals' = Append(accelArrivals, s[2])
    /\ UNCHANGED <<config, ret, sessionVars>>

\* the wall clock advances between two recomputations
ClockTick ==
  /\ now < MaxNow
  /\ now' = now + 1
  /\ UNCHANGED <<classifierVars, arrivalVars, ret, hookVars, storageVars>>

NextBatch ==
  \/ CalculateSessionStats
  \/ LiveUpdateHistories
  \/ ClockTick

SpecBatch == InitBatch /\ [][NextBatch]_vars

\* C10: calculateSessionStats called twice with the same log, sessionId and
\* startTime returns the same SessionStats in every field, whatever happened
\* between the two calls.
C10_BatchIdempotent ==
  [][(ret.op = "calculateSessionStats" /\ ret'.op = "calculateSessionStats") =>
       ret'.stats = ret.stats]_vars

----------------------------------------------------------------------------
(* The classifier driven directly by a client *)

InitClassifier ==
  /\ config \in Configs
  /\ speedHistory = <<>>
  /\ accelerationHistory = <<>>
  /\ speedArrivals = <<>>
  /\ accelArrivals = <<>>
  /\ ret = NoCall
  /\ InitSession

UpdateHistories ==
  \E s \in Samples :
    /\ Len(speedArrivals) < MaxArrivals
    /\ speedHistory' = updateHistory(config, speedHistory, s[1])
    /\ accelerationHistory' = updateHistory(config, accelerationHistory, s[2])
    /\ speedArrivals' = Append(speedArrivals, s[1])
    /\ accelArrivals' = Append(accelArrivals, s[2])
    /\ ret' = NoCall
    /\ UNCHANGED <<config, sessionVars>>

Reset ==
  /\ speedHistory' = reset_histories
  /\ accelerationHistory' = reset_histories
  /\ speedArrivals' = <<>>
  /\ accelArrivals' = <<>>
  /\ ret' = NoCall
  /\ UNCHANGED <<config, sessionVars>>

GetActivity ==
  \E q \in QuerySamples :
    /\ ret' = [op |-> "getActivity", speed |-> q[1], acceleration |-> q[2],
               activity |-> getActivity(config, speedHistory, accelerationHistory,
                                        q[1], q[2])]
    /\ UNCHANGED <<classifierVars, arrivalVars, sessionVars>>

GetConfidence ==
  \E q \in QuerySamples, activity \in ActivityType :
    /\ ret' = [op |-> "getConfidence", speed |-> q[1], acceleration |-> q[2],
               activity |-> activity,
               confidence |-> getConfidence(config, speedHistory, q[1], q[2], activity)]
    /\ UNCHANGED <<classifierVars, arrivalVars, sessionVars>>

ProcessActivityData ==
  \E in \in PipelineInputs :
    LET location == [latitude |-> in.latitude, longitude |-> LON, speed |-> in.speed]
        lastLocation == IF in.last = NULL THEN NULL
                        ELSE Some([latitude |-> in.last[1], longitude |-> LON])
        r == processActivityData(config, speedHistory, accelerationHistory,
                                 location, in.acceleration, lastLocation)
    IN /\ Len(speedArrivals) < MaxArrivals
       /\ speedHistory' = r.speedHistory
       /\ accelerationHistory' = r.accelerationHistory
       /\ speedArrivals' = IF r.failed THEN speedArrivals
                           ELSE Append(speedArrivals, Last(r.speedHistory))
       /\ accelArrivals' = IF r.failed THEN accelArrivals
                           ELSE Append(accelArrivals, Last(r.accelerationHistory))
       /\ ret' = [op |-> "processActivityData", location |-> location,
                  activity |-> r.activity, confidence |-> r.confidence,
                  distance |-> r.distance, failed |-> r.failed]
       /\ UNCHANGED <<config, sessionVars>>

DetectStep ==
  \E q \in QuerySamples :
    /\ ret' = [op |-> "detectStep", acceleration |-> q[2],
               result |-> detectStep(config, accelerationHistory, q[2])]
    /\ UNCHANGED <<classifierVars, arrivalVars, sessionVars>>

NextClassifier ==
  \/ UpdateHistories
  \/ Reset
  \/ GetActivity
  \/ GetConfidence
  \/ ProcessActivityData
  \/ DetectStep

SpecClassifier == InitClassifier /\ [][NextClassifier]_vars

----------------------------------------------------------------------------
(* The classifier with a client that also reads and changes the config and  *)
(* recomputes the stats of a recorded log                                   *)

\* setConfig with every field the caller leaves out taken from the defaults
setConfigOverDefaults(cfg, partial) ==
  [f \in DOMAIN cfg |->
     IF f \in DOMAIN partial THEN partial[f] ELSE DEFAULT_CLASSIFIER_CONFIG[f]]

\* setConfig: { ...this.config, ...config }
setConfig(cfg, partial) ==
  [f \in DOMAIN cfg |-> IF f \in DOMAIN partial THEN partial[f] ELSE cfg[f]]

\* the Partial<ClassifierConfig> values a client passes to setConfig
Partials ==
  { [movingAverageWindow |-> w] : w \in Windows }
    \cup { [stepDetectionThreshold |-> 10, walkingAccelerationThreshold |-> 30] }

\* a recorded log the client may recompute
RecordedLogs ==
  { <<>>, <<BatchRecord(WALKING, 0, 10, 1112), BatchRecord(RUNNING, 3, 40, 3336)>> }

InitConfig ==
  /\ config \in Configs
  /\ speedHistory = <<>>
  /\ accelerationHistory = <<>>
  /\ speedArrivals = <<>>
  /\ accelArrivals = <<>>
  /\ ret = NoCall
  /\ now = 0
  /\ pc = "ready"
  /\ isActive = FALSE
  /\ sessionStats = newSessionStats(0, 0)
  /\ activityLogs \in RecordedLogs
  /\ locationState = NULL
  /\ lastLocationRef = NULL
  /\ listener = NULL
  /\ subscription = FALSE
  /\ orphans = NoOrphans
  /\ routes = <<>>
  /\ totalStats = NoTotalStats
  /\ saves = NoSaves

SetConfig ==
  \E partial \in Partials :
    /\ config' = setConfig(config, partial)
    /\ ret' = [op |-> "setConfig", partial |-> partial]
    /\ UNCHANGED <<speedHistory, accelerationHistory, arrivalVars, sessionVars>>

GetConfig ==
  /\ ret' = [op |-> "getConfig", config |-> config]
  /\ UNCHANGED <<classifierVars, arrivalVars, sessionVars>>

GetAverages ==
  /\ ret' = [op |-> "getAverages", averages |-> getAverages(speedHistory, accelerationHistory)]
  /\ UNCHANGED <<classifierVars, arrivalVars, sessionVars>>

NextConfig ==
  \/ UpdateHistories
  \/ Reset
  \/ SetConfig
  \/ GetConfig
  \/ GetAverages
  \/ GetActivity
  \/ GetConfidence
  \/ DetectStep
  \/ CalculateSessionStats

SpecConfig == InitConfig /\ [][NextConfig]_vars

\* C25: each history is at most as long as the movingAverageWindow configured
\* at the moment, also after setConfig has changed the window.
C25_HistoryWithinCurrentWindow ==
  /\ Len(speedHistory) <= config.movingAverageWindow
  /\ Len(accelerationHistory) <= config.movingAverageWindow

\* the operations that only read the classifier
QueryOps ==
  {"getActivity", "getConfidence", "detectStep", "getAverages", "getConfig",
   "calculateSessionStats"}

\* C30: the queries (getActivity, getConfidence, detectStep, getAverages,
\* getConfig, and calculateSessionStats) leave histories and config as they
\* were; the config changes by setConfig only, which changes the fields it
\* is given and leaves the other fields and the histories alone.
C30_QueriesReadOnly ==
  [][/\ ret'.op \in QueryOps => UNCHANGED <<speedHistory, accelerationHistory, config>>
     /\ config' # config => ret'.op = "setConfig"
     /\ ret'.op = "setConfig" =>
          /\ UNCHANGED <<speedHistory, accelerationHistory>>
          /\ \A f \in DOMAIN config :
               config'[f] = IF f \in DOMAIN ret'.partial THEN ret'.partial[f]
                            ELSE config[f]]_vars

\* setConfig has lowered the window of a non-default config under histories
\* that hold samples
C30_Witness ==
  /\ ret.op = "setConfig"
  /\ config.runningSpeedThreshold # DEFAULT_CLASSIFIER_CONFIG.runningSpeedThreshold
  /\ Len(speedHistory) >= 2
  /\ config.movingAverageWindow = ret.partial.movingAverageWindow

----------------------------------------------------------------------------
(* services/RouteService and services/StorageService: saveRoute calls, each  *)
(* taken one await at a time, so that calls may overlap and any storage      *)
(* access may fail                                                           *)

\* the stats a client hands to RouteService.saveRoute: a session that has ended
RecordedStats ==
  { finalStats([newSessionStats(1, 0) EXCEPT !.distance = d, !.steps = n], 1) :
      <<d, n>> \in {<<1112, 2>>, <<3336, 5>>} }

\* the SavedRoute RouteService.saveRoute builds; its id (a time stamp and a
\* random suffix in the code) is the number of the call
newRoute(id, logs, stats) ==
  [id |-> id, date |-> stats.startTime, logs |-> logs, stats |-> stats]

\* a route stored before any of the calls, with the totals that count it
StoredBefore ==
  newRoute(0, <<>>, finalStats([newSessionStats(1, 0) EXCEPT !.distance = 1112], 1))

\* RouteService.saveRoute up to the first await: the route is built and
\* StorageService.saveRoute, in readRoutes, awaits AsyncStorage.getItem(ROUTES)
BeginSaveRoute(p) ==
  \E stats \in RecordedStats :
    /\ saves[p].pc = "idle"
    /\ saves' = [saves EXCEPT ![p] =
                   [@ EXCEPT !.pc = "getRoutes",
                             !.route = Some(newRoute(p, <<>>, stats)),
                             !.before = Some([routes |-> routes,
                                              totalStats |-> totalStats])]]
    /\ UNCHANGED <<classifierVars, arrivalVars, ret, now, hookVars, routes, totalStats>>

\* readRoutes' getItem settles: the stored list, or [] when it rejects
\* (readRoutes swallows the error); StorageService.saveRoute pushes the route
\* and awaits AsyncStorage.setItem(ROUTES)
StorageReadRoutes(p) ==
  \E ok \in BOOLEAN :
    /\ saves[p].pc = "getRoutes"
    /\ saves' = [saves EXCEPT ![p] =
                   [@ EXCEPT !.pc = "setRoutes",
                             !.routesRead = IF ok THEN routes ELSE <<>>,
                             !.faulted = @ \/ ~ok]]
    /\ UNCHANGED <<classifierVars, arrivalVars, ret, now, hookVars, routes, totalStats>>

\* saveRoute's setItem settles (its local list is gone either way): the list
\* read plus the route is stored and
\* updateTotalStats, in readTotalStats, awaits getItem(TOTAL_STATS); or the
\* write rejects and RouteService.saveRoute throws
StorageWriteRoutes(p) ==
  \E ok \in BOOLEAN :
    /\ saves[p].pc = "setRoutes"
    /\ routes' = IF ok THEN Append(saves[p].routesRead, saves[p].route[1]) ELSE routes
    /\ saves' = [saves EXCEPT ![p] =
                   [@ EXCEPT !.pc = IF ok THEN "getTotals" ELSE "failed",
                             !.routesRead = <<>>,
                             !.faulted = @ \/ ~ok]]
    /\ UNCHANGED <<classifierVars, arrivalVars, ret, now, hookVars, totalStats>>

\* readTotalStats' getItem settles: the stored totals, or null when it rejects
\* (every field then counts from 0); updateTotalStats awaits saveTotalStats
StorageReadTotals(p) ==
  \E ok \in BOOLEAN :
    /\ saves[p].pc = "getTotals"
    /\ saves' = [saves EXCEPT ![p] =
                   [@ EXCEPT !.pc = "setTotals",
                             !.totalsRead = IF ok THEN totalStats ELSE NoTotalStats,
                             !.faulted = @ \/ ~ok]]
    /\ UNCHANGED <<classifierVars, arrivalVars, ret, now, hookVars, routes, totalStats>>

\* saveTotalStats' setItem settles: the totals read plus the session are
\* stored and RouteService.saveRoute returns the route; or the write rejects
\* and RouteService.saveRoute throws
StorageWriteTotals(p) ==
  \E ok \in BOOLEAN :
    /\ saves[p].pc = "setTotals"
    /\ totalStats' = IF ok
                       THEN updateTotalStats(saves[p].totalsRead, saves[p].route[1].stats)
                       ELSE totalStats
    /\ saves' = [saves EXCEPT ![p] =
                   [@ EXCEPT !.pc = IF ok THEN "done" ELSE "failed",
                             !.totalsRead = NoTotalStats,
                             !.faulted = @ \/ ~ok]]
    /\ UNCHANGED <<classifierVars, arrivalVars, ret, now, hookVars, routes>>

\* a fresh install, or one route stored and counted
InitStorage ==
  /\ config = DEFAULT_CLASSIFIER_CONFIG
  /\ speedHistory = <<>>
  /\ accelerationHistory = <<>>
  /\ speedArrivals = <<>>
  /\ accelArrivals = <<>>
  /\ ret = NoCall
  /\ now = 0
  /\ pc = "ready"
  /\ isActive = FALSE
  /\ sessionStats = newSessionStats(0, 0)
  /\ activityLogs = <<>>
  /\ locationState = NULL
  /\ lastLocationRef = NULL
  /\ listener = NULL
  /\ subscription = FALSE
  /\ orphans = NoOrphans
  /\ saves = NoSaves
  /\ \/ routes = <<>> /\ totalStats = NoTotalStats
     \/ /\ routes = <<StoredBefore>>
        /\ totalStats = updateTotalStats(NoTotalStats, StoredBefore.stats)

NextStorage ==
  \E p \in 1..MaxSaves :
    \/ BeginSaveRoute(p)
    \/ StorageReadRoutes(p)
    \/ StorageWriteRoutes(p)
    \/ StorageReadTotals(p)
    \/ StorageWriteTotals(p)

SpecStorage == InitStorage /\ [][NextStorage]_vars

Range(seq) == { seq[i] : i \in 1..Len(seq) }

\* C28: when every saveRoute call has returned its route and no storage
\* access has failed, the stored list holds the route of every call and the
\* totals count one session more for each call than they did before the first
\* call, however the calls interleaved.
C28_NoLostUpdate ==
  (\A p \in 1..MaxSaves : saves[p].pc = "done" /\ ~saves[p].faulted) =>
    /\ \A p \in 1..MaxSaves : saves[p].route[1] \in Range(routes)
    /\ \E p \in 1..MaxSaves :
         totalStats.totalSessions = saves[p].before[1].totalStats.totalSessions + MaxSaves

\* C29: a saveRoute call made on its own that throws leaves the stored list
\* and the totals as they were before the call, and whatever a call made on
\* its own does, the routes stored before it stay in the list.
C29_SaveAllOrNothing ==
  \A p \in 1..MaxSaves :
    (saves[p].pc # "idle" /\ \A q \in 1..MaxSaves \ {p} : saves[q].pc = "idle") =>
      /\ saves[p].pc = "failed" =>
           /\ routes = saves[p].before[1].routes
           /\ totalStats = saves[p].before[1].totalStats
      /\ Range(saves[p].before[1].routes) \subseteq Range(routes)

----------------------------------------------------------------------------
(* Claims about a tracking session *)

\* C5: within one session distance, steps and calories of SessionStats never
\* decrease, whatever location fixes and accelerometer ticks arrive.
C5_StatsNonDecreasing ==
  [][sessionStats'.sessionId = sessionStats.sessionId =>
       /\ sessionStats'.distance >= sessionStats.distance
       /\ sessionStats'.steps >= sessionStats.steps
       /\ sessionStats'.calories >= sessionStats.calories]_vars

\* an active session that has accumulated distance, steps and calories over
\* two records
C5_Witness ==
  /\ isActive
  /\ Len(activityLogs) >= 2
  /\ sessionStats.distance > 0
  /\ sessionStats.steps > 0
  /\ sessionStats.calories > 0

SumActivities(activities) ==
  Sum([i \in 1..5 |-> activities[<<IDLE, WALKING, RUNNING, VEHICLE, UNKNOWN>>[i]]])

\* C6: the per-activity counts of SessionStats.activities sum to the number of
\* records appended to the session log so far, and the tally returned by
\* calculateSessionStats sums to the length of the log it was given.
C6_TallySumsToRecords ==
  /\ SumActivities(sessionStats.activities) = Len(activityLogs)
  /\ ret.op = "calculateSessionStats" =>
       SumActivities(ret.stats.activities) = Len(activityLogs)

\* a batch recomputation over a live log of two records of different
\* activities
C6_Witness ==
  /\ ret.op = "calculateSessionStats"
  /\ Len(activityLogs) = 2
  /\ activityLogs[1].activity # activityLogs[2].activity

\* C7: every record's speed is the absolute value of its location's speed,
\* and never negative.
C7_RecordSpeedIsAbsolute ==
  \A i \in 1..Len(activityLogs) :
    /\ activityLogs[i].speed = Abs(activityLogs[i].location.speed)
    /\ activityLogs[i].speed >= 0

\* the Step Detector's verdict on the sample of a record just appended, taken
\* against the history before or after the sample was pushed
StepDetectorFired ==
  LET magnitude == Last(activityLogs').acceleration.magnitude
  IN \/ detectStep(config, accelerationHistory, magnitude)
     \/ detectStep(config, accelerationHistory', magnitude)

RecordAppended == Len(activityLogs') = Len(activityLogs) + 1

\* C8: folding a sample adds exactly 1 to steps iff the Step Detector fired
\* for the sample and its activity is Walking or Running; otherwise steps is
\* unchanged.
C8_StepIffDetected ==
  [][RecordAppended =>
       sessionStats'.steps - sessionStats.steps =
         IF StepDetectorFired /\ Last(activityLogs').activity \in {WALKING, RUNNING}
         THEN 1 ELSE 0]_vars

\* C9: folding a sample adds caloriesPerStep when a step is counted while
\* Walking, caloriesPerStep + (distanceIncrement/1000)*caloriesPerKmRunning
\* when a step is counted while Running, and nothing otherwise.
C9_CaloriesPerCountedStep ==
  [][RecordAppended =>
       LET activity == Last(activityLogs').activity
           counted == sessionStats'.steps > sessionStats.steps
           distanceIncrement == sessionStats'.distance - sessionStats.distance
       IN sessionStats'.calories - sessionStats.calories =
            IF counted /\ activity = WALKING THEN config.caloriesPerStep
            ELSE IF counted /\ activity = RUNNING
              THEN config.caloriesPerStep + distanceIncrement * config.caloriesPerKmRunning
            ELSE 0]_vars

----------------------------------------------------------------------------
(* Claims about the classifier *)

RuleActivities == {IDLE, WALKING, RUNNING, VEHICLE}

\* C1: getActivity returns one of Idle, Walking, Running, Vehicle for every
\* configuration, history content and (speed, acceleration) input; it never
\* returns Unknown.
C1_GetActivityTotal ==
  /\ ret.op = "getActivity" => ret.activity \in RuleActivities
  /\ \A q \in QuerySamples :
       getActivity(config, speedHistory, accelerationHistory, q[1], q[2]) \in RuleActivities

\* a call of getActivity that went through every rule down to the last one,
\* on a non-empty history
C1_Witness ==
  /\ ret.op = "getActivity"
  /\ Len(speedHistory) > 0
  /\ ret.activity = IDLE
  /\ FracGe(calculateMovingAverage(speedHistory), config.idleSpeedThreshold)

\* The ordered first-match-wins procedure of the specification.
ReferenceActivity(cfg, sh, ah, speed, acceleration) ==
  LET Mean(h) == calculateMovingAverage(h)
      UseMean(h) == Len(h) > 0 /\ Mean(h).num > 0
      es == IF UseMean(sh) THEN Mean(sh) ELSE [num |-> speed, den |-> 1]
      ea == IF UseMean(ah) THEN Mean(ah) ELSE [num |-> acceleration, den |-> 1]
  IN CASE FracLt(es, cfg.idleSpeedThreshold) -> IDLE
       [] /\ ~FracLt(es, cfg.idleSpeedThreshold)
          /\ FracGe(es, cfg.vehicleSpeedThreshold) -> VEHICLE
       [] /\ ~FracLt(es, cfg.idleSpeedThreshold)
          /\ ~FracGe(es, cfg.vehicleSpeedThreshold)
          /\ FracGe(es, cfg.runningSpeedThreshold) ->
            IF FracGe(ea, cfg.runningAccelerationThreshold) THEN RUNNING ELSE VEHICLE
       [] /\ ~FracLt(es, cfg.idleSpeedThreshold)
          /\ ~FracGe(es, cfg.vehicleSpeedThreshold)
          /\ ~FracGe(es, cfg.runningSpeedThreshold)
          /\ FracGe(es, cfg.walkingSpeedThreshold) ->
            IF FracGe(ea, cfg.walkingAccelerationThreshold) THEN RUNNING ELSE WALKING
       [] OTHER ->
            IF FracGe(ea, cfg.walkingAccelerationThreshold) THEN WALKING ELSE IDLE

\* C2: getActivity equals the ordered first-match-wins reference procedure
\* on the effective (averaged, else raw) speed and acceleration.
C2_GetActivityMatchesReference ==
  ret.op = "getActivity" =>
    ret.activity = ReferenceActivity(config, speedHistory, accelerationHistory,
                                     ret.speed, ret.acceleration)

\* a call decided by rule (3) from the averages while the raw sample alone
\* would have been Idle
C2_Witness ==
  /\ ret.op = "getActivity"
  /\ Len(speedHistory) > 1
  /\ ret.speed < config.idleSpeedThreshold
  /\ ret.activity = VEHICLE
  /\ ~FracGe(calculateMovingAverage(speedHistory), config.vehicleSpeedThreshold)

LastN(seq, n) == SubSeq(seq, Len(seq) - n + 1, Len(seq))

\* C4: with a fixed configuration each history holds at most
\* movingAverageWindow values, and exactly the most recent values pushed
\* since the last reset, in arrival order.
C4_HistoryIsRecentWindow ==
  LET w == config.movingAverageWindow
  IN /\ Len(speedHistory) <= w
     /\ Len(accelerationHistory) <= w
     /\ speedHistory = LastN(speedArrivals, Min(Len(speedArrivals), w))
     /\ accelerationHistory = LastN(accelArrivals, Min(Len(accelArrivals), w))

\* more values were pushed than the window holds, so eviction has happened
C4_Witness ==
  /\ Len(speedArrivals) > config.movingAverageWindow
  /\ Len(speedHistory) = config.movingAverageWindow
  /\ speedArrivals[1] # speedArrivals[Len(speedArrivals)]

----------------------------------------------------------------------------
(* Claims about batch recomputation *)

\* the acceleration history rebuilt from the first n records of a log
RebuiltHistory(cfg, logs, n) ==
  LastN([i \in 1..n |-> logs[i].acceleration.magnitude], Min(n, cfg.movingAverageWindow))

\* the records for which the step rule fires against the rebuilt history
RebuiltSteps(cfg, logs) ==
  Cardinality({i \in 1..Len(logs) :
                 /\ detectStep(cfg, RebuiltHistory(cfg, logs, i - 1),
                               logs[i].acceleration.magnitude)
                 /\ logs[i].activity \in {WALKING, RUNNING}})

\* C11: the step count returned by calculateSessionStats is the number of
\* Walking or Running records for which the step rule fires against a history
\* rebuilt from the log's own magnitudes; the live classifier's history has no
\* part in it.
C11_BatchStepsFromLogOnly ==
  ret.op = "calculateSessionStats" =>
    ret.stats.steps = RebuiltSteps(config, activityLogs)

\* C12: calculateSessionStats on an empty log returns a SessionStats with
\* distance, steps, calories, averageSpeed, maxSpeed and duration 0, an empty
\* activities tally and a non-null endTime, and leaves the classifier and the
\* storage as they were.
C12_EmptyLogYieldsZeroStats ==
  [][(ret' # ret /\ ret'.op = "calculateSessionStats" /\ Len(activityLogs) = 0) =>
       /\ ret'.stats.distance = 0
       /\ ret'.stats.steps = 0
       /\ ret'.stats.calories = 0
       /\ ret'.stats.averageSpeed = 0
       /\ ret'.stats.maxSpeed = 0
       /\ ret'.stats.duration = 0
       /\ ret'.stats.activities = NoActivities
       /\ ret'.stats.endTime # NULL
       /\ UNCHANGED <<classifierVars, storageVars>>]_vars

\* a recomputation over an empty log, made after the clock has advanced and
\* while the live classifier holds samples
C12_Witness ==
  /\ ret.op = "calculateSessionStats"
  /\ Len(activityLogs) = 0
  /\ ret.stats.endTime = Some(now)
  /\ now > sessionStats.startTime
  /\ Len(accelerationHistory) >= 2

----------------------------------------------------------------------------
(* Claims about the session life cycle *)

\* startTracking has run its synchronous part, or stopTracking has returned
\* (normally with nothing to save, or from its await of saveRoute either way)
StartOrStopReturned ==
  \/ pc = "ready" /\ pc' = "starting"
  \/ pc = "ready" /\ isActive /\ ~isActive'
  \/ pc = "saving" /\ pc' = "ready"

\* C14: both classifier histories are empty right after every startTracking
\* and after every stopTracking, also when stopTracking fails while saving.
C14_HistoriesEmptyAfterStartAndStop ==
  [][StartOrStopReturned =>
       speedHistory' = <<>> /\ accelerationHistory' = <<>>]_vars

\* C27: while no startTracking or stopTracking is in progress, isActive is
\* true exactly when the location subscription and the accelerometer listener
\* are live, and no subscription is live besides the one that is held.
C27_ActiveIffSensorsLive ==
  pc = "ready" =>
    /\ isActive <=> (subscription /\ listener # NULL)
    /\ subscription <=> listener # NULL
    /\ orphans = NoOrphans

\* the stored routes that belong to the hook's current session
RoutesOfSession ==
  {i \in 1..Len(routes) : routes[i].stats.sessionId = sessionStats.sessionId}

\* C15: a session that went from start to stop has exactly one SavedRoute,
\* holding the session's log and its closed SessionStats, however few records
\* were folded.
C15_OneRoutePerSession ==
  (pc = "ready" /\ ~isActive /\ sessionStats.endTime # NULL) =>
    /\ Cardinality(RoutesOfSession) = 1
    /\ \A i \in RoutesOfSession :
         /\ routes[i].logs = activityLogs
         /\ routes[i].stats.endTime # NULL

\* C17: once a fix has been delivered, an accelerometer tick appends one
\* record to the end of the log, and the record's location is the fix
\* delivered most recently.
C17_RecordHoldsLatestFix ==
  [][RecordAppended =>
       /\ locationState # NULL
       /\ Last(activityLogs').location = locationState[1]
       /\ SubSeq(activityLogs', 1, Len(activityLogs)) = activityLogs]_vars

----------------------------------------------------------------------------
(* Claims about calls made on the controller and the Step Detector *)

\* C16: a classification call made while no session is active is reported as
\* an error and leaves the histories, the config, the session stats and the
\* log as they were.
C16_NoSessionCallRejected ==
  [][(ret'.op = "processActivityData" /\ ~isActive) =>
       /\ ret'.failed
       /\ UNCHANGED <<speedHistory, accelerationHistory, config, sessionStats,
                      activityLogs>>]_vars

\* C18: detectStep answers false for every magnitude while the acceleration
\* history holds fewer than 2 samples.
C18_NoStepOnShortHistory ==
  (ret.op = "detectStep" /\ Len(accelerationHistory) < 2) => ~ret.result

\* the Step Detector asked, with a history of one sample, about a magnitude
\* that exceeds that sample by more than stepDetectionThreshold and also
\* exceeds walkingAccelerationThreshold
C18_Witness ==
  /\ ret.op = "detectStep"
  /\ Len(accelerationHistory) = 1
  /\ ret.acceleration > accelerationHistory[1] + config.stepDetectionThreshold
  /\ ret.acceleration > config.walkingAccelerationThreshold

\* C20: in the live order (the sample is pushed and classified, then the Step
\* Detector is asked about the same sample) a step is detected when the
\* magnitude exceeds the previous sample by more than stepDetectionThreshold
\* and exceeds walkingAccelerationThreshold, given 2 samples in the history.
C20_StepAgainstPreviousSample ==
  [][(/\ ret.op = "processActivityData"
      /\ ~ret.failed
      /\ ret'.op = "detectStep"
      /\ ret'.acceleration = Last(accelerationHistory)
      /\ Len(accelerationHistory) >= 2) =>
       LET previous == accelerationHistory[Len(accelerationHistory) - 1]
       IN ret'.result =
            (/\ ret'.acceleration > previous + config.stepDetectionThreshold
             /\ ret'.acceleration > config.walkingAccelerationThreshold)]_vars

\* C23: a processActivityData call that fails inside returns Unknown with
\* confidence 0 and distance 0 and leaves the histories as they were, and the
\* call after it is processed as any other: its sample is pushed and
\* classified over the histories that contain it.
C23_FailedCallFallsBack ==
  [][ret'.op = "processActivityData" =>
       /\ ret'.failed =>
            /\ ret'.activity = UNKNOWN
            /\ ret'.confidence = 0
            /\ ret'.distance = 0
            /\ UNCHANGED <<speedHistory, accelerationHistory>>
       /\ (ret.op = "processActivityData" /\ ret.failed /\ ~ret'.failed) =>
            /\ Len(speedArrivals') = Len(speedArrivals) + 1
            /\ Len(accelArrivals') = Len(accelArrivals) + 1
            /\ ret'.activity = getActivity(config, speedHistory', accelerationHistory',
                                           Last(speedHistory'), Last(accelerationHistory'))]_vars

\* a failed call made while the histories already hold samples
C23_Witness ==
  /\ ret.op = "processActivityData"
  /\ ret.failed
  /\ Len(speedHistory) >= 2

----------------------------------------------------------------------------
(* Claims about the confidence formula *)

\* the variance as the mean squared difference over the pairs of values:
\* sum over i < j of (v[i] - v[j])^2, divided by n^2
PairVariance(values) ==
  LET n == Len(values)
      pairs == {p \in (1..n) \X (1..n) : p[1] < p[2]}
      RECURSIVE SumPairs(_)
      SumPairs(ps) ==
        IF ps = {} THEN 0
        ELSE LET p == CHOOSE q \in ps : TRUE
             IN (values[p[1]] - values[p[2]]) * (values[p[1]] - values[p[2]])
                  + SumPairs(ps \ {p})
  IN [num |-> SumPairs(pairs), den |-> n * n]

\* 0.5 + 0.2 * min(length / window, 1) + consistencyBonus + stabilityBonus,
\* clamped to [0, 1], in 1/600
ReferenceConfidence(cfg, sh, speed, acceleration, activity) ==
  LET w == cfg.movingAverageWindow
      history == IF Len(sh) < w THEN (120 * Len(sh)) \div w ELSE 120
      idleOk == speed < cfg.idleSpeedThreshold /\ acceleration < cfg.idleAccelerationThreshold
      walkingOk == /\ cfg.idleSpeedThreshold <= speed
                   /\ speed < cfg.runningSpeedThreshold
                   /\ acceleration >= cfg.walkingAccelerationThreshold
      runningOk == speed >= cfg.runningSpeedThreshold /\
                   acceleration >= cfg.runningAccelerationThreshold
      vehicleOk == speed >= cfg.vehicleSpeedThreshold
      consistencyBonus ==
        IF activity = IDLE /\ idleOk THEN 180
        ELSE IF activity = WALKING /\ walkingOk THEN 150
        ELSE IF activity = RUNNING /\ runningOk THEN 180
        ELSE IF activity = VEHICLE /\ vehicleOk THEN 180
        ELSE 0
      stabilityBonus ==
        IF Len(sh) >= w /\ 2 * PairVariance(sh).num < 1000000 * PairVariance(sh).den
        THEN 60 ELSE 0
      total == 300 + history + consistencyBonus + stabilityBonus
  IN IF total > 600 THEN 600 ELSE IF total < 0 THEN 0 ELSE total

\* C21: getConfidence returns clamp(0.5 + 0.2*min(length/window, 1) +
\* consistencyBonus + stabilityBonus, 0, 1) with the bonuses of the rule
\* table and the stability bonus for a full, steady speed history.
C21_ConfidenceFormula ==
  ret.op = "getConfidence" =>
    ret.confidence = ReferenceConfidence(config, speedHistory, ret.speed,
                                         ret.acceleration, ret.activity)

\* a call that got the stability bonus and no consistency bonus: the speed
\* history is full and steady, the activity asked about is Unknown
C21_Witness ==
  /\ ret.op = "getConfidence"
  /\ ret.activity = UNKNOWN
  /\ Len(speedHistory) = config.movingAverageWindow
  /\ ret.confidence = 480

----------------------------------------------------------------------------
(* Claims about the batch calories and the live distance *)

\* C26: the distance accumulated live in SessionStats equals the distance
\* calculateSessionStats recomputes from the session's log of records.
C26_LiveDistanceEqualsBatch ==
  (ret.op = "calculateSessionStats" /\ Len(activityLogs) >= 2) =>
    ret.stats.distance = sessionStats.distance

\* C24: a fix with the coordinates of the fix before it adds 0 to the session
\* distance, a fix with zero elapsed time since the fix before it gets speed
\* 0, and the fix is kept as the one the next fix is measured against.
C24_DegenerateFixes ==
  [][(locationState' # locationState /\ lastLocationRef # NULL) =>
       LET prev == lastLocationRef[1]
           fix == locationState'[1]
       IN /\ (fix.latitude = prev.latitude /\ fix.longitude = prev.longitude) =>
               sessionStats'.distance = sessionStats.distance
          /\ now = prev.timestamp => fix.speed = 0
          /\ lastLocationRef' = locationState']_vars

\* a session that has gained distance and whose newest fix got speed 0: it
\* came with zero elapsed time or with the coordinates of the fix before it
C24_Witness ==
  /\ isActive
  /\ sessionStats.distance > 0
  /\ lastLocationRef # NULL
  /\ lastLocationRef[1].speed = 0

\* the distance accumulated while classified Running: for each Running
\* record but the first of the log, the increment from the record before it
RunningIncrements(logs) ==
  Sum([i \in 1..(Len(logs) - 1) |->
         IF logs[i + 1].activity = RUNNING
         THEN calculateDistance(logs[i].location.latitude, logs[i].location.longitude,
                                logs[i + 1].location.latitude, logs[i + 1].location.longitude)
         ELSE 0])

\* C22: the batch calories are steps * caloriesPerStep plus caloriesPerKmRunning
\* for the distance accumulated while classified Running; distance covered
\* between two Running stretches is not counted.
C22_BatchCaloriesFormula ==
  (ret.op = "calculateSessionStats" /\ Len(activityLogs) > 0) =>
    ret.stats.calories =
      ret.stats.steps * config.caloriesPerStep
        + RunningIncrements(activityLogs) * config.caloriesPerKmRunning
====
